---- MODULE Spec2Model ----
(***************************************************************************)
(* Model of scikits/learn/glm.py: the Lasso / ElasticNet estimators, the   *)
(* regularization paths built from them, the cross-validated selectors     *)
(* (specification Spec), and the two Bayesian solvers (SpecBayes).         *)
(*                                                                         *)
(* Reals are fixed-point integers: the real r is the integer r * Scale,    *)
(* every product and quotient is rounded to the nearest representable      *)
(* value, as float64 arithmetic rounds to the nearest double.  The         *)
(* Bayesian solvers compute over the IEEE values: finite numbers up to     *)
(* Huge, the two infinities and nan.  The grid is much coarser than        *)
(* float64, so a quantity rounds to zero or overflows sooner than it does  *)
(* in the program.                                                         *)
(*                                                                         *)
(* The coordinate descent solver (cd_fast) is not part of glm.py; it is    *)
(* modelled from its description.  scipy.linalg.pinv is a library call:    *)
(* on an empty or non-finite matrix it either raises or returns nan.       *)
(***************************************************************************)
EXTENDS Integers, Sequences, FiniteSets, TLC

(* ------------------------------------------------------------------ *)
(* Bounds of the model                                                 *)
(* ------------------------------------------------------------------ *)
MaxIt == 2
MaxAlphas == 3
MaxSteps == 3

(* ------------------------------------------------------------------ *)
(* Fixed-point arithmetic                                              *)
(* ------------------------------------------------------------------ *)
Scale == 100

Abs(a) == IF a < 0 THEN -a ELSE a
Sign(a) == IF a < 0 THEN -1 ELSE IF a > 0 THEN 1 ELSE 0
Max(a, b) == IF a >= b THEN a ELSE b

\* n / d rounded to the nearest integer (d > 0)
Rnd(n, d) == (2 * n + d) \div (2 * d)

\* product and quotient of two fixed-point reals
Mul(a, b) == Rnd(a * b, Scale)
Div(a, b) == IF b > 0 THEN Rnd(a * Scale, b) ELSE -Rnd(a * Scale, -b)

RECURSIVE SumTo(_, _)
SumTo(v, n) == IF n = 0 THEN 0 ELSE v[n] + SumTo(v, n - 1)
Sum(v) == SumTo(v, Len(v))

RECURSIVE MaxTo(_, _)
MaxTo(v, n) == IF n = 1 THEN v[1] ELSE Max(v[n], MaxTo(v, n - 1))

Zeros(n) == [j \in 1..n |-> 0]
NFeat(X) == Len(X[1])
Col(X, j) == [i \in 1..Len(X) |-> X[i][j]]

\* np.dot of two vectors
Dot(u, v) == Rnd(Sum([i \in 1..Len(u) |-> u[i] * v[i]]), Scale)
\* X.mean(axis=0), Y.mean(axis=0)
Mean(v) == Rnd(Sum(v), Len(v))
ColMeans(X) == [j \in 1..NFeat(X) |-> Mean(Col(X, j))]
\* X - xmean, a new matrix (the caller's X is left as it is)
Center(X, xmean) == [i \in 1..Len(X) |-> [j \in 1..NFeat(X) |-> X[i][j] - xmean[j]]]
\* X[train], y[train]
Take(v, idx) == [i \in 1..Len(idx) |-> v[idx[i]]]

(* ------------------------------------------------------------------ *)
(* Extended reals: the IEEE values.  A finite value beyond Huge          *)
(* overflows to an infinity.                                           *)
(* ------------------------------------------------------------------ *)
Huge == 20000

Fin(v) == [k |-> "fin", v |-> v]
NaN == [k |-> "nan", v |-> 0]
PInf == [k |-> "inf", v |-> 0]
NInf == [k |-> "ninf", v |-> 0]
IsFin(a) == a.k = "fin"
IsNaN(a) == a.k = "nan"
Sat(v) == IF v > Huge THEN PInf ELSE IF v < -Huge THEN NInf ELSE Fin(v)
Sgn(a) == IF a.k = "inf" THEN 1 ELSE IF a.k = "ninf" THEN -1 ELSE Sign(a.v)
Signed(s) == IF s < 0 THEN NInf ELSE PInf

\* a / b for finite a, b by the IEEE rules: x/0 is +-inf, 0/0 is nan
XQuot(a, b) ==
    IF b # 0 THEN Sat(Div(a, b))
    ELSE IF a > 0 THEN PInf ELSE IF a < 0 THEN NInf ELSE NaN

XNeg(a) == IF a.k = "inf" THEN NInf ELSE IF a.k = "ninf" THEN PInf
           ELSE IF a.k = "nan" THEN NaN ELSE Fin(-a.v)
XAbs(a) == IF a.k = "ninf" THEN PInf ELSE IF a.k = "fin" THEN Fin(Abs(a.v)) ELSE a

XAdd(a, b) ==
    IF IsNaN(a) \/ IsNaN(b) THEN NaN
    ELSE IF IsFin(a) /\ IsFin(b) THEN Sat(a.v + b.v)
    ELSE IF IsFin(a) THEN b
    ELSE IF IsFin(b) \/ a.k = b.k THEN a
    ELSE NaN
XSub(a, b) == XAdd(a, XNeg(b))

XMul(a, b) ==
    IF IsNaN(a) \/ IsNaN(b) THEN NaN
    ELSE IF IsFin(a) /\ IsFin(b) THEN Sat(Mul(a.v, b.v))
    ELSE IF Sgn(a) = 0 \/ Sgn(b) = 0 THEN NaN
    ELSE Signed(Sgn(a) * Sgn(b))

XDiv(a, b) ==
    IF IsNaN(a) \/ IsNaN(b) THEN NaN
    ELSE IF IsFin(a) /\ IsFin(b) THEN XQuot(a.v, b.v)
    ELSE IF IsFin(a) THEN Fin(0)
    ELSE IF IsFin(b) THEN Signed(Sgn(a) * (IF b.v < 0 THEN -1 ELSE 1))
    ELSE NaN

\* a < b; every comparison with nan is false
XLt(a, b) ==
    /\ ~IsNaN(a) /\ ~IsNaN(b)
    /\ \/ IsFin(a) /\ IsFin(b) /\ a.v < b.v
       \/ a.k = "ninf" /\ b.k # "ninf"
       \/ a.k # "inf" /\ b.k = "inf"

RECURSIVE XSumTo(_, _)
XSumTo(v, n) == IF n = 0 THEN Fin(0) ELSE XAdd(XSumTo(v, n - 1), v[n])
XSum(v) == XSumTo(v, Len(v))
XDot(u, v) == XSum([i \in 1..Len(u) |-> XMul(u[i], v[i])])

(* ------------------------------------------------------------------ *)
(* Linear algebra of the Bayesian solvers, over the extended reals.    *)
(* A matrix is a sequence of rows; the solvers have at most two        *)
(* features.                                                           *)
(* ------------------------------------------------------------------ *)
\* the indices a boolean mask keeps, ascending: the columns of X[:, keep_a]
RECURSIVE Kept(_, _)
Kept(mask, j) ==
    IF j > Len(mask) THEN <<>>
    ELSE (IF mask[j] THEN << j >> ELSE <<>>) \o Kept(mask, j + 1)
Where(mask) == Kept(mask, 1)
Pos(idx, j) == CHOOSE p \in 1..Len(idx) : idx[p] = j

\* np.dot(X.T[keep_a,:], X[:,keep_a])
Gram(Xm, idx) ==
    [i \in 1..Len(idx) |->
        [j \in 1..Len(idx) |-> Sat(Dot(Col(Xm, idx[i]), Col(Xm, idx[j])))]]
\* np.dot(X.T[keep_a,:], Y)
XtY(Xm, yv, idx) == [i \in 1..Len(idx) |-> Sat(Dot(Col(Xm, idx[i]), yv))]

\* np.var(Y)
Var(yv) == Mean([i \in 1..Len(yv) |-> Mul(yv[i] - Mean(yv), yv[i] - Mean(yv))])

\* alpha*ones + beta*gram, alpha broadcast along the columns
Precision(av, b, G) ==
    [i \in 1..Len(G) |->
        [j \in 1..Len(G) |->
            XAdd(XMul(av[j], Fin(IF i = j THEN Scale ELSE 0)), XMul(b, G[i][j]))]]

MatFin(M) == \A i \in 1..Len(M) : \A j \in 1..Len(M) : IsFin(M[i][j])
NaNs(n) == [i \in 1..n |-> [j \in 1..n |-> NaN]]

\* n / d rounded to nearest, d > 0
QuotR(n, d) == IF n >= 0 THEN (n + d \div 2) \div d ELSE -((d \div 2 - n) \div d)
\* m / q for a scaled m and a product q of two scaled values, q # 0
Ratio(m, q) ==
    Sat(IF q > 0 THEN QuotR(m * Scale * Scale, q) ELSE QuotR(-m * Scale * Scale, -q))

Det2(M) == M[1][1].v * M[2][2].v - M[1][2].v * M[2][1].v
Frob2(M) == M[1][1].v * M[1][1].v + M[1][2].v * M[1][2].v
            + M[2][1].v * M[2][1].v + M[2][2].v * M[2][2].v
Pinv1(M) == << << IF M[1][1].v = 0 THEN Fin(0) ELSE XQuot(Scale, M[1][1].v) >> >>
\* the inverse of a regular matrix; M^T / |M|_F^2 for a matrix of rank one
Pinv2(M, det, frob) ==
    IF det # 0
    THEN << << Ratio(M[2][2].v, det), Ratio(-M[1][2].v, det) >>,
            << Ratio(-M[2][1].v, det), Ratio(M[1][1].v, det) >> >>
    ELSE IF frob = 0 THEN M
    ELSE [i \in 1..2 |-> [j \in 1..2 |-> Ratio(M[j][i].v, frob)]]

\* scipy.linalg.pinv.  What it does with an empty matrix or with one that
\* holds inf or nan is the library's choice lib: it raises, or it returns nan.
pinv(M, lib) ==
    IF Len(M) = 0 \/ ~MatFin(M)
    THEN [ok |-> lib = "nan", m |-> NaNs(Len(M))]
    ELSE [ok |-> TRUE,
          m |-> IF Len(M) = 1 THEN Pinv1(M) ELSE Pinv2(M, Det2(M), Frob2(M))]
Libs == {"raise", "nan"}

\* np.dot(beta*sigma, np.dot(X.T, Y))
Posterior(b, S, xty) ==
    [i \in 1..Len(S) |-> XSum([j \in 1..Len(S) |-> XMul(XMul(b, S[i][j]), xty[j])])]

\* ((Y - np.dot(X[:,keep_a], w[keep_a]))**2).sum()
XSq(a) == XMul(a, a)
Fitted1(Xm, wv, idx, i) == XSum([p \in 1..Len(idx) |-> XMul(Fin(Xm[i][idx[p]]), wv[idx[p]])])
RSS(Xm, yv, wv, idx) ==
    XSum([i \in 1..Len(yv) |-> XSq(XSub(Fin(yv[i]), Fitted1(Xm, wv, idx, i)))])

\* np.sum(np.abs(w - old_w))
Change(wv, ov) == XSum([j \in 1..Len(wv) |-> XAbs(XSub(wv[j], ov[j]))])

\* the integer square root
RECURSIVE SqrtBetween(_, _, _)
SqrtBetween(n, lo, hi) ==
    IF lo >= hi THEN lo
    ELSE IF ((lo + hi + 1) \div 2) * ((lo + hi + 1) \div 2) <= n
         THEN SqrtBetween(n, (lo + hi + 1) \div 2, hi)
         ELSE SqrtBetween(n, lo, (lo + hi + 1) \div 2 - 1)
ISqrt(n) == SqrtBetween(n, 0, Huge)
\* np.real(scipy.linalg.eigvals(gram.T)) of a symmetric gram matrix
Disc(G) == (G[1][1].v - G[2][2].v) * (G[1][1].v - G[2][2].v) + 4 * G[1][2].v * G[2][1].v
eigvals(G) ==
    IF Len(G) = 1 THEN << G[1][1] >>
    ELSE << Sat((G[1][1].v + G[2][2].v + ISqrt(Disc(G))) \div 2),
            Sat((G[1][1].v + G[2][2].v - ISqrt(Disc(G))) \div 2) >>

(* ------------------------------------------------------------------ *)
(* Coordinate descent solver (cd_fast)                                 *)
(* ------------------------------------------------------------------ *)
\* the tolerance bound actually used: tol * ||y||^2, tol in units of 1e-4
TolBound(tol, yv) == Rnd(tol * Dot(yv, yv), 10000)

\* y - X.w
Residual(Xm, yv, w) == [i \in 1..Len(yv) |-> yv[i] - Dot(Xm[i], w)]

\* soft-thresholding of the correlation tmp by alpha, over the curvature
SoftThreshold(tmp, alpha, nrm, beta) ==
    IF nrm = 0 THEN 0
    ELSE Sign(tmp) * Div(Max(Abs(tmp) - alpha, 0), nrm + beta)

\* one coordinate: least squares against the partial residual, then
\* soft-thresholding by alpha, shrunk by the L2 weight beta
CoordUpdate(w, j, alpha, beta, Xm, yv) ==
    SoftThreshold(Dot(Col(Xm, j), Residual(Xm, yv, [w EXCEPT ![j] = 0])),
                  alpha, Dot(Col(Xm, j), Col(Xm, j)), beta)

\* one full sweep over the features, in index order, from feature j on
RECURSIVE SweepFrom(_, _, _, _, _, _)
SweepFrom(w, j, alpha, beta, Xm, yv) ==
    IF j > Len(w) THEN w
    ELSE SweepFrom([w EXCEPT ![j] = CoordUpdate(w, j, alpha, beta, Xm, yv)],
                   j + 1, alpha, beta, Xm, yv)

\* the gap from the norms: dn = ||X'R - beta w||_inf, R2 = ||R||^2,
\* Ry = R.y, w1 = ||w||_1, w2 = ||w||^2, c = the dual rescaling
GapAt(alpha, beta, dn, R2, Ry, w1, w2, c) ==
    (IF dn > alpha THEN Rnd(R2 + Mul(R2, Mul(c, c)), 2) ELSE R2)
    + Mul(alpha, w1) - Mul(c, Ry)
    + Rnd(Mul(beta, Mul(Scale + Mul(c, c), w2)), 2)

GapNorms(alpha, beta, dn, R2, Ry, w1, w2) ==
    GapAt(alpha, beta, dn, R2, Ry, w1, w2,
          IF dn > alpha THEN Div(alpha, dn) ELSE Scale)

GapOf(w, alpha, beta, Xm, yv, R) ==
    GapNorms(alpha, beta,
             MaxTo([j \in 1..Len(w) |-> Abs(Dot(Col(Xm, j), R) - Mul(beta, w[j]))],
                   Len(w)),
             Dot(R, R), Dot(R, yv),
             Sum([j \in 1..Len(w) |-> Abs(w[j])]), Dot(w, w))

\* primal objective minus the dual objective at the rescaled residual
DualGap(w, alpha, beta, Xm, yv) ==
    GapOf(w, alpha, beta, Xm, yv, Residual(Xm, yv, w))

\* full sweeps until the gap is below the bound or maxit sweeps are done
RECURSIVE CDLoop(_, _, _, _, _, _, _)
CDStop(w, gap, n, alpha, beta, Xm, yv, bound) ==
    IF gap < bound \/ n <= 1 THEN [w |-> w, gap |-> gap, eps |-> bound]
    ELSE CDLoop(w, n - 1, alpha, beta, Xm, yv, bound)
CDCheck(w, n, alpha, beta, Xm, yv, bound) ==
    CDStop(w, DualGap(w, alpha, beta, Xm, yv), n, alpha, beta, Xm, yv, bound)
CDLoop(w, n, alpha, beta, Xm, yv, bound) ==
    CDCheck(SweepFrom(w, 1, alpha, beta, Xm, yv), n, alpha, beta, Xm, yv, bound)

enet_coordinate_descent(w, alpha, beta, Xm, yv, maxit, tol) ==
    CDLoop(w, maxit, alpha, beta, Xm, yv, TolBound(tol, yv))

lasso_coordinate_descent(w, alpha, Xm, yv, maxit, tol) ==
    CDLoop(w, maxit, alpha, 0, Xm, yv, TolBound(tol, yv))

\* the solver refuses data whose sample counts disagree
ShapeOK(Xm, yv) == Len(Xm) = Len(yv)

(* ------------------------------------------------------------------ *)
(* Estimator objects.  coef_ is a reference into the heap of arrays    *)
(* (0 is None); the other attributes hold values.                      *)
(* ------------------------------------------------------------------ *)
\* tol=1e-4, the default of Lasso.__init__ and ElasticNet.__init__
DefaultTol == 1

\* the object after __init__: no fitted attribute is set yet
NewModel(cls, alpha, rho, coef, tol) ==
    [cls |-> cls, alpha |-> alpha, rho |-> rho, tol |-> tol, coef_ |-> coef,
     fitted |-> FALSE, intercept |-> FALSE, xmean |-> <<>>, ymean |-> 0,
     dual_gap_ |-> 0, eps_ |-> 0, intercept_ |-> 0, intercept_len |-> 0,
     rsquared_ |-> NaN]

\* 1 - q
OneMinus(q) ==
    IF q.k = "fin" THEN Fin(Scale - q.v) ELSE IF q.k = "inf" THEN NInf ELSE NaN
SqNorm(v) == Dot(v, v)
\* 1 - ||Y - X.coef||^2 / ||Y||^2
compute_rsquared(Xm, Yv, w) ==
    OneMinus(XQuot(SqNorm(Residual(Xm, Yv, w)), SqNorm(Yv)))

\* LinearModel.predict: np.dot(X, coef_) + intercept_.  After a fit without
\* centering intercept_ is an array with one zero per feature, and the sum
\* broadcasts or raises.
PredictOK(m, Xt) ==
    \/ m.intercept_len <= 1
    \/ Len(Xt) = 1
    \/ Len(Xt) = m.intercept_len
predict(m, h, Xt) == [i \in 1..Len(Xt) |-> Dot(Xt[i], h[m.coef_]) + m.intercept_]

\* the reference of the array the solver works on: self.coef_, or new zeros
CoefRef(m, h) == IF m.coef_ = 0 THEN Len(h) + 1 ELSE m.coef_
CoefHeap(m, h, nf) == IF m.coef_ = 0 THEN Append(h, Zeros(nf)) ELSE h

\* lines 520-528 and 533-534: the attributes set before the solver runs
Centered(m, h, kw, xmean, ymean) ==
    [m EXCEPT !.intercept = kw.intercept, !.xmean = xmean, !.ymean = ymean,
              !.coef_ = CoefRef(m, h)]

\* lines 536-549: the solver's result r is stored; the array is updated in place
\* Fitted, but warning as soon as the gap is positive
Fitted_warn_on_any_gap(m, h, kw, Xc, Yc, r) ==
    [m |-> [m EXCEPT !.fitted = TRUE,
                     !.dual_gap_ = r.gap, !.eps_ = r.eps,
                     !.intercept_ = IF kw.intercept
                                    THEN m.ymean - Dot(m.xmean, r.w) ELSE 0,
                     !.intercept_len = IF kw.intercept THEN 0 ELSE Len(r.w),
                     !.rsquared_ = compute_rsquared(Xc, Yc, r.w)],
     h |-> [h EXCEPT ![m.coef_] = r.w],
     raised |-> FALSE,
     warned |-> r.gap > 0]

Fitted(m, h, kw, Xc, Yc, r) ==
    [m |-> [m EXCEPT !.fitted = TRUE,
                     !.dual_gap_ = r.gap, !.eps_ = r.eps,
                     !.intercept_ = IF kw.intercept
                                    THEN m.ymean - Dot(m.xmean, r.w) ELSE 0,
                     !.intercept_len = IF kw.intercept THEN 0 ELSE Len(r.w),
                     !.rsquared_ = compute_rsquared(Xc, Yc, r.w)],
     h |-> [h EXCEPT ![m.coef_] = r.w],
     raised |-> FALSE,
     warned |-> r.gap > r.eps]

Raised(m, h) == [m |-> m, h |-> h, raised |-> TRUE, warned |-> FALSE]

\* lines 530-538
\* LassoSolve, but with the penalty not multiplied by the number of samples
LassoSolve_unscaled(m, h, kw, Xc, Yc) ==
    IF ~ShapeOK(Xc, Yc) THEN Raised(m, h)
    ELSE Fitted(m, h, kw, Xc, Yc,
                lasso_coordinate_descent(h[m.coef_], m.alpha, Xc, Yc,
                                         kw.maxit, m.tol))

LassoSolve(m, h, kw, Xc, Yc) ==
    IF ~ShapeOK(Xc, Yc) THEN Raised(m, h)
    ELSE Fitted(m, h, kw, Xc, Yc,
                lasso_coordinate_descent(h[m.coef_], m.alpha * Len(Xc), Xc, Yc,
                                         kw.maxit, m.tol))

LassoCentered(m, h, Xd, Yd, kw, xmean, ymean) ==
    LassoSolve(Centered(m, h, kw, xmean, ymean), CoefHeap(m, h, NFeat(Xd)), kw,
               Center(Xd, xmean), [i \in 1..Len(Yd) |-> Yd[i] - ymean])

\* Lasso.fit on object m with heap h: the object and the heap afterwards,
\* whether the call raised, and whether the warning was emitted
Lasso_fit(m, h, Xd, Yd, kw) ==
    LassoCentered(m, h, Xd, Yd, kw,
                  IF kw.intercept THEN ColMeans(Xd) ELSE Zeros(NFeat(Xd)),
                  IF kw.intercept THEN Mean(Yd) ELSE 0)

\* lines 593-598
ElasticNetSolve(m, h, kw, Xc, Yc) ==
    IF ~ShapeOK(Xc, Yc) THEN Raised(m, h)
    ELSE Fitted(m, h, kw, Xc, Yc,
                enet_coordinate_descent(h[m.coef_],
                                        Mul(m.alpha, m.rho) * Len(Xc),
                                        Mul(m.alpha, Scale - m.rho) * Len(Xc),
                                        Xc, Yc, kw.maxit, m.tol))

ElasticNetCentered(m, h, Xd, Yd, kw, xmean, ymean) ==
    ElasticNetSolve(Centered(m, h, kw, xmean, ymean), CoefHeap(m, h, NFeat(Xd)),
                    kw, Center(Xd, xmean), [i \in 1..Len(Yd) |-> Yd[i] - ymean])

ElasticNet_fit(m, h, Xd, Yd, kw) ==
    ElasticNetCentered(m, h, Xd, Yd, kw,
                       IF kw.intercept THEN ColMeans(Xd) ELSE Zeros(NFeat(Xd)),
                       IF kw.intercept THEN Mean(Yd) ELSE 0)

fit(m, h, Xd, Yd, kw) ==
    IF m.cls = "Lasso" THEN Lasso_fit(m, h, Xd, Yd, kw)
    ELSE ElasticNet_fit(m, h, Xd, Yd, kw)

(* ------------------------------------------------------------------ *)
(* Penalty grids                                                       *)
(* ------------------------------------------------------------------ *)
RECURSIVE Pow(_, _)
Pow(b, e) == IF e = 0 THEN 1 ELSE b * Pow(b, e - 1)

\* eps^(k/m) in fixed point: the largest q with q^m <= eps^k * Scale^(m-k)
RootOf(T, m, top) ==
    CHOOSE q \in 0..top : Pow(q, m) <= T /\ (q = top \/ Pow(q + 1, m) > T)
RootPow(eps_arg, k, m) ==
    RootOf(Pow(eps_arg, k) * Pow(Scale, m - k), m, Max(eps_arg, Scale))

\* np.exp(np.linspace(np.log(alpha_max), np.log(eps * alpha_max), n_alphas))
GeomGrid(alpha_max, eps, n) ==
    IF n = 1 THEN << alpha_max >>
    ELSE [i \in 1..n |-> Mul(alpha_max, RootPow(eps, i - 1, n - 1))]

\* np.abs(np.dot(X.T, y)).max()
MaxAbsCorr(Xm, yv) ==
    MaxTo([j \in 1..NFeat(Xm) |-> Abs(Dot(Col(Xm, j), yv))], NFeat(Xm))

\* insert a into a descending sequence
RECURSIVE InsertDesc(_, _)
InsertDesc(a, s) ==
    IF s = <<>> THEN << a >>
    ELSE IF a >= Head(s) THEN << a >> \o s
    ELSE << Head(s) >> \o InsertDesc(a, Tail(s))

\* np.sort(alphas)[::-1]
RECURSIVE SortDesc(_)
SortDesc(s) == IF s = <<>> THEN <<>> ELSE InsertDesc(Head(s), SortDesc(Tail(s)))

\* lasso_alphas, but leaving an explicit list in the caller's order
lasso_alphas_unsorted(Xm, yv, eps_arg, n, alphas_arg) ==
    IF alphas_arg = <<>>
    THEN GeomGrid(Rnd(MaxAbsCorr(Xm, yv), Len(Xm)), eps_arg, n)
    ELSE alphas_arg[1]

\* lasso_alphas, but keeping at most n penalties of an explicit list
lasso_alphas_first_n(Xm, yv, eps_arg, n, alphas_arg) ==
    IF alphas_arg = <<>>
    THEN GeomGrid(Rnd(MaxAbsCorr(Xm, yv), Len(Xm)), eps_arg, n)
    ELSE SubSeq(SortDesc(alphas_arg[1]), 1, n)

\* lasso_path, lines 655-660: the grid of penalties
lasso_alphas(Xm, yv, eps_arg, n, alphas_arg) ==
    IF alphas_arg = <<>>
    THEN GeomGrid(Rnd(MaxAbsCorr(Xm, yv), Len(Xm)), eps_arg, n)
    ELSE SortDesc(alphas_arg[1])

\* enet_path, lines 704-709
enet_alphas(Xm, yv, rho_arg, eps_arg, n, alphas_arg) ==
    IF alphas_arg = <<>>
    THEN GeomGrid(Div(MaxAbsCorr(Xm, yv), Len(Xm) * rho_arg), eps_arg, n)
    ELSE SortDesc(alphas_arg[1])

\* argmin, but the last index of the least value
argmin_last(v) == CHOOSE i \in 1..Len(v) :
                      /\ \A j \in 1..Len(v) : v[i] <= v[j]
                      /\ \A j \in (i + 1)..Len(v) : v[j] > v[i]

\* np.argmin: the first index of the least value
argmin(v) == CHOOSE i \in 1..Len(v) :
                 /\ \A j \in 1..Len(v) : v[i] <= v[j]
                 /\ \A j \in 1..(i - 1) : v[j] > v[i]

(* ------------------------------------------------------------------ *)
(* State                                                               *)
(* ------------------------------------------------------------------ *)
VARIABLES
    entry,        \* the function the caller invokes: "fit", "path", "cv", or
                  \* "cvfit" for the fit of a LassoCV / ElasticNetCV object
    self,         \* the attributes of that object, by name
    est,          \* "Lasso" or "ElasticNet"
    pc,           \* position in the running call
    X, y,         \* the caller's design matrix and target
    rho, eps, n_alphas, alphas, cv, kw,   \* the caller's arguments
    clf,          \* the estimator object of a single fit
    heap,         \* the coefficient arrays, by reference
    models,       \* optimized_*: the path on the full data; the list a path returns
    path_X, path_y, path_eps, path_n, path_arg, path_ret,  \* a path call's arguments
    grid,         \* lasso_path/enet_path: alphas after lines 655-660
    coef,         \* lasso_path/enet_path: the local coef (0 is None)
    path_models,  \* lasso_path/enet_path: the local models
    models_train, \* optimized_*: the path of the current fold
    mse_alphas, fold, result, error,
    nfits,        \* solver runs completed so far
    nwarn,        \* 'did not converge' warnings emitted so far
    step_th, th_w, alpha_th, ll_bool,     \* the Bayesian solvers' arguments
    alpha_, beta_,                        \* their locals alpha and beta
    arrays,       \* the weight arrays, by reference
    w_, old_w,    \* the locals w and old_w: references into arrays
    sigma, keep_a, gram, eigen, has_converged, log_likelihood,
    steps,        \* loop iterations completed so far
    ret           \* the tuple a Bayesian solver returns

call == << entry, est, X, y, cv, kw >>
args == << call, rho, eps, self >>
frame == << path_X, path_y, path_eps, path_n, path_arg, path_ret >>
pathloc == << grid, coef, path_models >>
cvloc == << n_alphas, alphas, models_train, mse_alphas, fold, result >>
bayes == << step_th, th_w, alpha_th, ll_bool, alpha_, beta_, arrays, w_, old_w,
           sigma, keep_a, gram, eigen, has_converged, log_likelihood, steps, ret >>
vars == << args, frame, pathloc, cvloc, pc, clf, heap, models, error, nfits, nwarn,
           bayes >>

(* ------------------------------------------------------------------ *)
(* Inputs                                                              *)
(* ------------------------------------------------------------------ *)
ScaleV(v) == [i \in 1..Len(v) |-> v[i] * Scale]
ScaleM(M) == [i \in 1..Len(M) |-> ScaleV(M[i])]
Data(Xraw, yraw) == [X |-> ScaleM(Xraw), y |-> ScaleV(yraw)]

Datasets ==
    { Data(<< <<0, 0>>, <<1, 1>>, <<2, 2>> >>, <<0, 1, 2>>),
      Data(<< <<-1>>, <<2>> >>, <<2, -1>>),
      Data(<< <<1, 0>>, <<0, 1>>, <<2, 1>>, <<1, 3>> >>, <<1, 2, 3, 5>>),
      Data(<< <<1>>, <<2>>, <<3>>, <<4>> >>, <<1, 3, 2, 5>>) }
\* a design matrix and a target whose sample counts disagree
Mismatched == { Data(<< <<1>>, <<2>>, <<3>> >>, <<1, 2>>) }

Alphas0 == {10, 100}
Tols == {DefaultTol, 5000}
Rhos == {50}
EpsValues == {25, 100, 200}
AlphaLists == { <<10, 50>>, <<50, 50>>, <<10, 100, 50>>, <<400, 500>> }
FitKwargs == [intercept : BOOLEAN, maxit : 1..MaxIt]

Split(tr, te) == [train |-> tr, test |-> te]
\* fold partitions of n samples
Partitions(n) ==
    IF n = 2 THEN { << Split(<<2>>, <<1>>), Split(<<1>>, <<2>>) >> }
    ELSE IF n = 3 THEN { << Split(<<2, 3>>, <<1>>), Split(<<1, 3>>, <<2>>),
                            Split(<<1, 2>>, <<3>>) >> }
    ELSE { << Split(<<3, 4>>, <<1, 2>>), Split(<<1, 2>>, <<3, 4>>) >>,
           << Split(<<2, 4>>, <<1, 3>>), Split(<<1, 3>>, <<2, 4>>) >> }

GridArgs ==
    [eps : EpsValues, n_alphas : 1..MaxAlphas, alphas : {<<>>}]
    \cup [eps : {25}, n_alphas : 1..MaxAlphas, alphas : {<< a >> : a \in AlphaLists}]

Idle ==
    /\ path_X = <<>> /\ path_y = <<>> /\ path_eps = 0 /\ path_n = 0
    /\ path_arg = <<>> /\ path_ret = "none"
    /\ grid = <<>> /\ coef = 0 /\ path_models = <<>>
    /\ models = <<>> /\ models_train = <<>> /\ mse_alphas = <<>> /\ fold = 0
    /\ result = <<>> /\ error = "none" /\ heap = <<>>
    /\ nfits = 0 /\ nwarn = 0 /\ pc = "call"

InitFit ==
    /\ entry = "fit"
    /\ est \in {"Lasso", "ElasticNet"}
    /\ \E d \in Datasets \cup Mismatched : X = d.X /\ y = d.y
    /\ rho \in Rhos
    /\ kw \in FitKwargs
    /\ \E a \in Alphas0, t \in Tols : clf = NewModel(est, a, rho, 0, t)
    /\ eps = 0 /\ n_alphas = 0 /\ alphas = <<>> /\ cv = <<>>
    /\ self = <<>>
    /\ Idle

InitPath ==
    /\ entry \in {"path", "cv"}
    /\ est \in {"Lasso", "ElasticNet"}
    /\ \E d \in Datasets \cup Mismatched : X = d.X /\ y = d.y
    /\ rho \in Rhos
    /\ kw \in FitKwargs
    /\ \E g \in GridArgs : eps = g.eps /\ n_alphas = g.n_alphas /\ alphas = g.alphas
    /\ IF entry = "cv" THEN cv \in Partitions(Len(y)) ELSE cv = <<>>
    /\ clf = NewModel(est, 0, rho, 0, DefaultTol)
    /\ self = <<>>
    /\ Idle

\* rho=0.5, the default of optimized_enet and of ElasticNetCV.__init__
DefaultRho == 50

\* LinearModelCV.__init__ (lines 850-853) and ElasticNetCV.__init__ (887-889):
\* the attributes of the new object
LinearModelCV(e, n, a) == [eps |-> e, n_alphas |-> n, alphas |-> a]
ElasticNetCV(r, e, n, a) == [rho |-> r, eps |-> e, n_alphas |-> n, alphas |-> a]

CVRhos == {DefaultRho, 90}
CVGridArgs == [eps : {25}, n_alphas : {2}, alphas : {<<>>, << <<10, 50>> >>}]

\* the caller builds LassoCV(eps, n_alphas, alphas) or
\* ElasticNetCV(rho, eps, n_alphas, alphas) and calls its fit(X, y, cv, **kw)
InitCVFit ==
    /\ entry = "cvfit"
    /\ est \in {"Lasso", "ElasticNet"}
    /\ \E d \in Datasets : X = d.X /\ y = d.y
    /\ kw \in FitKwargs
    /\ cv \in Partitions(Len(y))
    /\ \E g \in CVGridArgs :
          IF est = "Lasso"
          THEN self = LinearModelCV(g.eps, g.n_alphas, g.alphas)
          ELSE \E r \in CVRhos : self = ElasticNetCV(r, g.eps, g.n_alphas, g.alphas)
    /\ rho = 0 /\ eps = 0 /\ n_alphas = 0 /\ alphas = <<>>
    /\ clf = NewModel(est, 0, rho, 0, DefaultTol)
    /\ Idle

\* no Bayesian solver is running
BayesIdle ==
    /\ step_th = 0 /\ th_w = 0 /\ alpha_th = 0 /\ ll_bool = FALSE
    /\ alpha_ = <<>> /\ beta_ = NaN /\ arrays = <<>> /\ w_ = 0 /\ old_w = 0
    /\ sigma = <<>> /\ keep_a = <<>> /\ gram = <<>> /\ eigen = <<>>
    /\ has_converged = FALSE /\ log_likelihood = "None" /\ steps = 0 /\ ret = <<>>

Init == (InitFit \/ InitPath \/ InitCVFit) /\ BayesIdle

(* ------------------------------------------------------------------ *)
(* Lasso.fit / ElasticNet.fit called by the user                       *)
(* ------------------------------------------------------------------ *)
\* the caller's state after the fit with outcome r
FitDone(r) ==
    /\ clf' = r.m
    /\ heap' = r.h
    /\ nfits' = IF r.raised THEN nfits ELSE nfits + 1
    /\ nwarn' = IF r.warned THEN nwarn + 1 ELSE nwarn
    /\ pc' = IF r.raised THEN "error" ELSE "done"
    /\ error' = IF r.raised THEN "ValueError" ELSE error
    /\ UNCHANGED << bayes, args, frame, pathloc, cvloc, models >>

LassoFit ==
    /\ entry = "fit" /\ pc = "call" /\ est = "Lasso"
    /\ FitDone(Lasso_fit(clf, heap, X, y, kw))

ElasticNetFit ==
    /\ entry = "fit" /\ pc = "call" /\ est = "ElasticNet"
    /\ FitDone(ElasticNet_fit(clf, heap, X, y, kw))

(* ------------------------------------------------------------------ *)
(* lasso_path / enet_path                                              *)
(* ------------------------------------------------------------------ *)
\* the user calls lasso_path(X, y, eps, n_alphas, alphas, **kw) or enet_path
path_call ==
    /\ entry = "path" /\ pc = "call"
    /\ path_X' = X /\ path_y' = y /\ path_eps' = eps /\ path_n' = n_alphas
    /\ path_arg' = alphas /\ path_ret' = "caller"
    /\ pc' = "path"
    /\ UNCHANGED << bayes, args, pathloc, cvloc, clf, heap, models, error, nfits, nwarn >>

\* lines 654-662 and 703-711: the grid, coef = None, models = []
\* (np.dot(X.T, y) raises when the sample counts disagree)
path_init ==
    /\ pc = "path"
    /\ IF path_arg = <<>> /\ Len(path_X) # Len(path_y)
       THEN /\ pc' = "error" /\ error' = "ValueError"
            /\ UNCHANGED pathloc
       ELSE /\ grid' = IF est = "Lasso"
                       THEN lasso_alphas(path_X, path_y, path_eps, path_n, path_arg)
                       ELSE enet_alphas(path_X, path_y, rho, path_eps, path_n, path_arg)
            /\ coef' = 0
            /\ path_models' = <<>>
            /\ pc' = "path_loop"
            /\ error' = error
    /\ UNCHANGED << bayes, args, frame, cvloc, clf, heap, models, nfits, nwarn >>

\* the reference handed to the next model: model.coef_.copy() is a new array
\* NextCoef, but handing the next fit the model's own array
NextCoef_shared(h, m) == [h |-> h, ref |-> m.coef_]

NextCoef(h, m) == [h |-> Append(h, h[m.coef_]), ref |-> Len(h) + 1]

\* lines 665-667 and 714-716 once model.fit has ended with outcome r
PathFitted(r) ==
    IF r.raised
    THEN /\ pc' = "error" /\ error' = "ValueError"
         /\ heap' = r.h
         /\ UNCHANGED << pathloc, nfits, nwarn >>
    ELSE /\ heap' = NextCoef(r.h, r.m).h
         /\ coef' = NextCoef(r.h, r.m).ref
         /\ path_models' = Append(path_models, r.m)
         /\ nfits' = nfits + 1
         /\ nwarn' = IF r.warned THEN nwarn + 1 ELSE nwarn
         /\ UNCHANGED << grid, pc, error >>

\* lines 663-667 and 712-716: one iteration of `for alpha in alphas`
path_fit ==
    /\ pc = "path_loop" /\ Len(path_models) < Len(grid)
    /\ PathFitted(fit(NewModel(est, grid[Len(path_models) + 1], rho, coef,
                               DefaultTol),
                      heap, path_X, path_y, kw))
    /\ UNCHANGED << bayes, args, frame, cvloc, clf, models >>

\* lines 668 and 717: return models
path_return ==
    /\ pc = "path_loop" /\ Len(path_models) = Len(grid)
    /\ IF path_ret = "cv_fold"
       THEN /\ models_train' = path_models
            /\ pc' = "cv_fold_done"
            /\ UNCHANGED models
       ELSE /\ models' = path_models
            /\ pc' = IF path_ret = "cv_full" THEN "cv_full_done" ELSE "done"
            /\ UNCHANGED models_train
    /\ UNCHANGED << bayes, args, frame, pathloc, n_alphas, alphas, mse_alphas, fold,
                    result, clf, heap, error, nfits, nwarn >>

(* ------------------------------------------------------------------ *)
(* optimized_lasso / optimized_enet                                    *)
(* ------------------------------------------------------------------ *)
\* lines 761 and 825: the path on the full data
cv_call ==
    /\ (entry = "cv" /\ pc = "call") \/ pc = "cv_entered"
    /\ path_X' = X /\ path_y' = y /\ path_eps' = eps /\ path_n' = n_alphas
    /\ path_arg' = alphas /\ path_ret' = "cv_full"
    /\ pc' = "path"
    /\ UNCHANGED << bayes, args, pathloc, cvloc, clf, heap, models, error, nfits, nwarn >>

\* lines 764-771 and 828-835
cv_setup ==
    /\ pc = "cv_full_done"
    /\ alphas' = << [i \in 1..Len(models) |-> models[i].alpha] >>
    /\ n_alphas' = Len(models)
    /\ mse_alphas' = Zeros(Len(models))
    /\ fold' = 1
    /\ pc' = "cv_loop"
    /\ UNCHANGED << bayes, args, frame, pathloc, models_train, result, clf, heap, models,
                    error, nfits, nwarn >>

\* lines 772-774 and 836-839: the path on the fold's training samples
cv_fold ==
    /\ pc = "cv_loop" /\ fold <= Len(cv)
    /\ path_X' = Take(X, cv[fold].train) /\ path_y' = Take(y, cv[fold].train)
    /\ path_eps' = eps /\ path_n' = n_alphas /\ path_arg' = alphas
    /\ path_ret' = "cv_fold"
    /\ pc' = "path"
    /\ UNCHANGED << bayes, args, pathloc, cvloc, clf, heap, models, error, nfits, nwarn >>

\* ((y_ - y[test]) ** 2).mean()
SqErr(y_, yt) == Mean([i \in 1..Len(yt) |-> Mul(y_[i] - yt[i], y_[i] - yt[i])])
MSE(m, h, Xt, yt) == SqErr(predict(m, h, Xt), yt)

\* mse_alphas after lines 775-777 / 840-842 for one fold
Accumulate(mse, mt, h, Xt, yt) ==
    [i \in 1..Len(mse) |-> IF i <= Len(mt) THEN mse[i] + MSE(mt[i], h, Xt, yt)
                           ELSE mse[i]]

\* lines 775-777 and 840-842: the fold's errors are added to mse_alphas
Scored(Xt, yt) ==
    IF \E i \in 1..Len(models_train) : ~PredictOK(models_train[i], Xt)
    THEN /\ pc' = "error" /\ error' = "ValueError"
         /\ UNCHANGED << mse_alphas, fold >>
    ELSE /\ mse_alphas' = Accumulate(mse_alphas, models_train, heap, Xt, yt)
         /\ fold' = fold + 1
         /\ pc' = "cv_loop"
         /\ error' = error

cv_score ==
    /\ pc = "cv_fold_done"
    /\ Scored(Take(X, cv[fold].test), Take(y, cv[fold].test))
    /\ UNCHANGED << bayes, args, frame, pathloc, n_alphas, alphas, models_train, result,
                    clf, heap, models, nfits, nwarn >>

\* lines 779-780 and 844-845
cv_select ==
    /\ pc = "cv_loop" /\ fold > Len(cv)
    /\ result' = << models[argmin(mse_alphas)] >>
    /\ pc' = IF entry = "cvfit" THEN "cv_returned" ELSE "done"
    /\ UNCHANGED << bayes, args, frame, pathloc, n_alphas, alphas, models_train,
                    mse_alphas, fold, clf, heap, models, error, nfits, nwarn >>

(* ------------------------------------------------------------------ *)
(* LinearModelCV.fit                                                   *)
(* ------------------------------------------------------------------ *)
\* d.update(e): the entries of e, and those of d under the other names
update(d, e) ==
    [k \in DOMAIN d \cup DOMAIN e |-> IF k \in DOMAIN e THEN e[k] ELSE d[k]]

\* the names in a model record that are not attributes of the object: a Lasso
\* has no rho
NotAttr(m) ==
    {"cls", "fitted", "intercept_len"} \cup (IF m.cls = "Lasso" THEN {"rho"} ELSE {})
\* model.__dict__
ModelDict(m) == [k \in (DOMAIN m) \ NotAttr(m) |-> m[k]]

\* lines 861-865: self.path_ = [], then self.path(X, y, cv=cv, eps=self.eps,
\* n_alphas=self.n_alphas, **fit_kwargs); alphas and rho are not passed and
\* take the defaults of optimized_lasso / optimized_enet
cvfit_call ==
    /\ entry = "cvfit" /\ pc = "call"
    /\ self' = update(self, [path_ |-> <<>>])
    /\ eps' = self.eps
    /\ n_alphas' = self.n_alphas
    /\ alphas' = <<>>
    /\ rho' = IF est = "ElasticNet" THEN DefaultRho ELSE rho
    /\ pc' = "cv_entered"
    /\ UNCHANGED << bayes, call, frame, pathloc, models_train, mse_alphas, fold, result,
                    clf, heap, models, error, nfits, nwarn >>

\* lines 867-868: self.__dict__.update(model.__dict__)
cvfit_update ==
    /\ entry = "cvfit" /\ pc = "cv_returned"
    /\ self' = update(self, ModelDict(result[1]))
    /\ pc' = "done"
    /\ UNCHANGED << bayes, call, rho, eps, frame, pathloc, cvloc, clf, heap, models,
                    error, nfits, nwarn >>

Next ==
    \/ LassoFit \/ ElasticNetFit
    \/ path_call \/ path_init \/ path_fit \/ path_return
    \/ cv_call \/ cv_setup \/ cv_fold \/ cv_score \/ cv_select
    \/ cvfit_call \/ cvfit_update

Spec == Init /\ [][Next]_vars

(* ------------------------------------------------------------------ *)
(* bayesian_ridge_regression and bayesian_regression_ard               *)
(* ------------------------------------------------------------------ *)
BayesData ==
    { Data(<< <<1>>, <<2>> >>, <<1, 2>>),
      Data(<< <<1>>, <<2>> >>, <<1, 1>>),
      Data(<< <<1, 0>>, <<2, 0>>, <<0, 1>> >>, <<1, 3, 0>>),
      Data(<< <<1, 0>>, <<0, 1>>, <<1, 1>> >>, <<1, 2, 2>>) }
StepArgs == -1..MaxSteps
ThWs == {1, 50}
AlphaThs == {200, 300, Huge}

InitBayes ==
    /\ entry \in {"ridge", "ard"}
    /\ \E d \in BayesData : X = d.X /\ y = d.y
    /\ step_th \in StepArgs /\ th_w \in ThWs /\ alpha_th \in AlphaThs
    /\ ll_bool \in BOOLEAN
    /\ alpha_ = <<>> /\ beta_ = NaN /\ arrays = <<>> /\ w_ = 0 /\ old_w = 0
    /\ sigma = <<>> /\ keep_a = <<>> /\ gram = <<>> /\ eigen = <<>>
    /\ has_converged = FALSE /\ log_likelihood = "None" /\ steps = 0 /\ ret = <<>>
    /\ est = "none" /\ rho = 0 /\ eps = 0 /\ n_alphas = 0 /\ alphas = <<>>
    /\ cv = <<>> /\ kw = <<>> /\ clf = <<>> /\ self = <<>>
    /\ Idle

\* what no step of a Bayesian solver changes
outside == << args, th_w, alpha_th, ll_bool,
              frame, pathloc, cvloc, clf, heap, models, nfits, nwarn >>

Const(n, v) == [j \in 1..n |-> v]
Sel(v, idx) == [p \in 1..Len(idx) |-> v[idx[p]]]
\* Scatter, but with the coefficient of a dropped feature set to zero
Scatter_zero(wv, keep, post) ==
    [j \in 1..Len(wv) |-> IF keep[j] THEN post[Pos(Where(keep), j)] ELSE Fin(0)]

\* w[keep_a] = post, in place
Scatter(wv, keep, post) ==
    [j \in 1..Len(wv) |-> IF keep[j] THEN post[Pos(Where(keep), j)] ELSE wv[j]]
\* the solver ends in the library's exception
LinAlgError ==
    /\ pc' = "error"
    /\ error' = "ValueError"

\* lines 314-317 and 408-411, after beta, alpha and gram are set
Started(b, P, e, keep) ==
    /\ beta_' = b
    /\ has_converged' = FALSE
    /\ gram' = Gram(X, Where(Const(NFeat(X), TRUE)))
    /\ steps' = 0
    /\ IF P.ok
       THEN /\ sigma' = P.m
            /\ arrays' = << Posterior(b, P.m, XtY(X, y, Where(Const(NFeat(X), TRUE)))),
                            Posterior(b, P.m, XtY(X, y, Where(Const(NFeat(X), TRUE)))) >>
            /\ w_' = 1
            /\ old_w' = 2
            /\ eigen' = e
            /\ keep_a' = keep
            /\ pc' = "loop"
            /\ error' = error
       ELSE /\ LinAlgError
            /\ UNCHANGED << sigma, arrays, w_, old_w, eigen, keep_a >>
    /\ UNCHANGED << outside, step_th, ret >>

\* lines 307-317
ridge_init ==
    /\ entry = "ridge" /\ pc = "call"
    /\ alpha_' = Fin(Scale)
    /\ log_likelihood' = <<>>
    /\ \E lib \in Libs :
          Started(XQuot(Scale, Var(y)),
                  pinv(Precision(Const(NFeat(X), Fin(Scale)), XQuot(Scale, Var(y)),
                                 Gram(X, Where(Const(NFeat(X), TRUE)))), lib),
                  eigvals(Gram(X, Where(Const(NFeat(X), TRUE)))), keep_a)

\* lines 398-411
ard_init ==
    /\ entry = "ard" /\ pc = "call"
    /\ alpha_' = Const(NFeat(X), Fin(Scale))
    /\ log_likelihood' = IF ll_bool THEN <<>> ELSE "None"
    /\ \E lib \in Libs :
          Started(XQuot(Scale, Var(y)),
                  pinv(Precision(Const(NFeat(X), Fin(Scale)), XQuot(Scale, Var(y)),
                                 Gram(X, Where(Const(NFeat(X), TRUE)))), lib),
                  eigen, Const(NFeat(X), TRUE))

\* the loop condition of lines 318 and 412
Looping == pc = "loop" /\ ~has_converged /\ step_th # 0

\* the value of the log likelihood computed from alpha, beta and w; nan when
\* the library did not raise on inf or nan
LogLik(finite, a, b, wv) ==
    [k |-> IF finite THEN "fin" ELSE "nan", alpha |-> a, beta |-> b, w |-> wv]

\* lines 333-337 and 430-435: the new weights wn are in the array at ref
Stepped(a, b, S, wn, ref, arrs) ==
    /\ alpha_' = a
    /\ beta_' = b
    /\ sigma' = S
    /\ arrays' = arrs
    /\ w_' = ref
    /\ step_th' = step_th - 1
    /\ has_converged' = XLt(Change(wn, arrs[old_w]), Fin(th_w))
    /\ old_w' = ref
    /\ steps' = steps + 1
    /\ UNCHANGED << pc, error >>

\* the library raised in line 331 or 429
StepRaised(a, b) ==
    /\ alpha_' = a
    /\ beta_' = b
    /\ LinAlgError
    /\ UNCHANGED << sigma, arrays, w_, step_th, has_converged, old_w, steps >>

\* lines 322-323
RidgeGamma(a, b, eig) ==
    XSum([i \in 1..Len(eig) |-> XDiv(XMul(b, eig[i]), XAdd(a, XMul(b, eig[i])))])
\* lines 331-337: w is bound to a new array
RidgeMean(a, b, P) ==
    IF P.ok
    THEN Stepped(a, b, P.m, Posterior(b, P.m, XtY(X, y, Where(Const(NFeat(X), TRUE)))),
                 Len(arrays) + 1,
                 Append(arrays,
                        Posterior(b, P.m, XtY(X, y, Where(Const(NFeat(X), TRUE))))))
    ELSE StepRaised(a, b)
RidgeSigma(a, b, lib) ==
    RidgeMean(a, b, pinv(Precision(Const(NFeat(X), a), b, gram), lib))
\* lines 324-328
RidgeUpdate(g, wv, lib) ==
    RidgeSigma(XDiv(g, XDot(wv, wv)),
               XDiv(XSub(Fin(Len(X) * Scale), g),
                    RSS(X, y, wv, Where(Const(NFeat(X), TRUE)))),
               lib)

\* ridge_iter, but appending the log likelihood of every pass to the trace
ridge_iter_logging ==
    /\ entry = "ridge" /\ Looping /\ steps < MaxSteps
    /\ \E lib \in Libs : RidgeUpdate(RidgeGamma(alpha_, beta_, eigen), arrays[w_], lib)
    /\ log_likelihood' =
          IF ll_bool
          THEN Append(log_likelihood, LogLik(TRUE, alpha_, beta_, arrays[w_]))
          ELSE log_likelihood
    /\ UNCHANGED << outside, keep_a, gram, eigen, ret >>

\* one pass of the loop of lines 318-337
ridge_iter ==
    /\ entry = "ridge" /\ Looping /\ steps < MaxSteps
    /\ \E lib \in Libs : RidgeUpdate(RidgeGamma(alpha_, beta_, eigen), arrays[w_], lib)
    /\ UNCHANGED << outside, keep_a, gram, eigen, log_likelihood, ret >>

\* line 415
ARDGamma(av, S, idx) ==
    [p \in 1..Len(idx) |-> XSub(Fin(Scale), XMul(av[idx[p]], S[p][p]))]
\* ARDAlpha, but resetting the precision of a dropped feature to 1
ARDAlpha_reset(av, g, wv, keep) ==
    [j \in 1..Len(av) |->
        IF keep[j] THEN XDiv(g[Pos(Where(keep), j)], XSq(wv[j])) ELSE Fin(Scale)]

\* line 416
ARDAlpha(av, g, wv, keep) ==
    [j \in 1..Len(av) |->
        IF keep[j] THEN XDiv(g[Pos(Where(keep), j)], XSq(wv[j])) ELSE av[j]]
\* line 424
KeepBelow(av, th) == [j \in 1..Len(av) |-> XLt(av[j], Fin(th))]
\* lines 430-435: w is updated in place
ARDMean(av, b, keep, P) ==
    /\ keep_a' = keep
    /\ gram' = Gram(X, Where(keep))
    /\ IF P.ok
       THEN Stepped(av, b, P.m,
                    Scatter(arrays[w_], keep, Posterior(b, P.m, XtY(X, y, Where(keep)))),
                    w_,
                    [arrays EXCEPT ![w_] =
                        Scatter(arrays[w_], keep,
                                Posterior(b, P.m, XtY(X, y, Where(keep))))])
       ELSE StepRaised(av, b)
\* lines 425-429
ARDSigma(av, b, keep, lib) ==
    ARDMean(av, b, keep,
            pinv(Precision(Sel(av, Where(keep)), b, Gram(X, Where(keep))), lib))
\* lines 416-424
ARDUpdate(g, wv, lib) ==
    ARDSigma(ARDAlpha(alpha_, g, wv, keep_a),
             XDiv(XSub(Fin(Len(X) * Scale), XSum(g)), RSS(X, y, wv, Where(keep_a))),
             KeepBelow(ARDAlpha(alpha_, g, wv, keep_a), alpha_th),
             lib)

\* one pass of the loop of lines 412-435
ard_iter ==
    /\ entry = "ard" /\ Looping /\ steps < MaxSteps
    /\ \E lib \in Libs : ARDUpdate(ARDGamma(alpha_, sigma, Where(keep_a)), arrays[w_], lib)
    /\ UNCHANGED << outside, eigen, log_likelihood, ret >>

\* alpha*ones + beta*gram of line 344 is finite
RidgeFinite == MatFin(Precision(Const(NFeat(X), alpha_), beta_, gram))
\* C_ of lines 440-441 is finite
ARDFinite ==
    /\ IsFin(XDiv(Fin(Scale), beta_))
    /\ \A j \in 1..Len(alpha_) :
          /\ IsFin(XDiv(Fin(Scale), alpha_[j]))
          /\ IsFin(XDiv(Fin(0), alpha_[j]))

\* lines 339-348 and 438-446
Returned(finite, lib) ==
    /\ pc = "loop" /\ (has_converged \/ step_th = 0)
    /\ IF ll_bool /\ ~finite /\ lib = "raise"
       THEN /\ LinAlgError
            /\ UNCHANGED << log_likelihood, ret >>
       ELSE /\ log_likelihood' =
                  IF ll_bool
                  THEN Append(log_likelihood, LogLik(finite, alpha_, beta_, arrays[w_]))
                  ELSE log_likelihood
            /\ ret' = << arrays[w_], alpha_, beta_, sigma, log_likelihood' >>
            /\ pc' = "returned"
            /\ error' = error
    /\ UNCHANGED << outside, step_th, alpha_, beta_, arrays, w_, old_w, sigma, keep_a,
                    gram, eigen, has_converged, steps >>

ridge_return == entry = "ridge" /\ \E lib \in Libs : Returned(RidgeFinite, lib)
ard_return == entry = "ard" /\ \E lib \in Libs : Returned(ARDFinite, lib)

NextBayes ==
    \/ ridge_init \/ ridge_iter \/ ridge_return
    \/ ard_init \/ ard_iter \/ ard_return

SpecBayes == InitBayes /\ [][NextBayes]_vars

(* ------------------------------------------------------------------ *)
(* Properties                                                          *)
(* ------------------------------------------------------------------ *)
\* the coefficients and intercept of a fit of penalty a started from vector w0
RefFit(a, w0, Xd, yd) ==
    fit(NewModel(est, a, rho, 1, DefaultTol), << w0 >>, Xd, yd, kw)
RefModel(r) == [coef_ |-> 1, intercept_ |-> r.m.intercept_,
                intercept_len |-> r.m.intercept_len, w |-> r.h[1]]
\* the models of the path over penalties g, each started from its predecessor
RECURSIVE RefPath(_, _, _, _, _)
RefPath(g, k, w0, Xd, yd) ==
    IF k > Len(g) THEN <<>>
    ELSE << RefModel(RefFit(g[k], w0, Xd, yd)) >>
         \o RefPath(g, k + 1, RefModel(RefFit(g[k], w0, Xd, yd)).w, Xd, yd)

\* the penalties of the models of a path
AlphasOf(ms) == [i \in 1..Len(ms) |-> ms[i].alpha]
\* the path fitted on a fold's training samples, for the full path's penalties
FoldPath(f) ==
    RefPath(IF est = "Lasso"
            THEN lasso_alphas(Take(X, cv[f].train), Take(y, cv[f].train), eps,
                              Len(models), << AlphasOf(models) >>)
            ELSE enet_alphas(Take(X, cv[f].train), Take(y, cv[f].train), rho, eps,
                             Len(models), << AlphasOf(models) >>),
            1, Zeros(NFeat(X)), Take(X, cv[f].train), Take(y, cv[f].train))
\* the mean squared error of the i-th model of fold f's path on its test samples
FoldMSE(f, i) ==
    MSE(FoldPath(f)[i], << FoldPath(f)[i].w >>,
        Take(X, cv[f].test), Take(y, cv[f].test))
RECURSIVE FoldSum(_, _)
FoldSum(f, i) == IF f = 0 THEN 0 ELSE FoldSum(f - 1, i) + FoldMSE(f, i)

\* the indices of the least accumulated error
Best == { i \in 1..Len(mse_alphas) :
            \A j \in 1..Len(mse_alphas) : mse_alphas[i] <= mse_alphas[j] }
\* the returned model is the full-data model at the first index of the least
\* error, and each error is the sum over the folds of the refitted path's
\* mean squared test error
SelectsFirstBest ==
    /\ Len(result) = 1
    /\ Len(mse_alphas) = Len(models)
    /\ \E i \in Best : /\ result[1] = models[i]
                       /\ \A j \in Best : i <= j
    /\ \A i \in 1..Len(models) : mse_alphas[i] = FoldSum(Len(cv), i)

C2_SameGrid ==
    pc = "cv_fold_done" =>
        /\ Len(models_train) = Len(models)
        /\ \A i \in 1..Len(models) : models_train[i].alpha = models[i].alpha

NonIncreasing(ms) == \A k \in 1..(Len(ms) - 1) : ms[k].alpha >= ms[k + 1].alpha
NonDecreasing(ms) == \A k \in 1..(Len(ms) - 1) : ms[k].alpha <= ms[k + 1].alpha
Decreasing(ms) == \A k \in 1..(Len(ms) - 1) : ms[k].alpha > ms[k + 1].alpha
Distinct(s) == \A i, j \in 1..Len(s) : i # j => s[i] # s[j]

C4_FirstModelZero ==
    (pc = "path_loop" /\ est = "Lasso" /\ path_arg = <<>> /\ kw.intercept
        /\ Len(path_models) >= 1) =>
        /\ path_models[1].alpha = Rnd(MaxAbsCorr(path_X, path_y), Len(path_X))
        /\ heap[path_models[1].coef_] = Zeros(NFeat(path_X))

\* the references of the arrays held by the models of a list
Refs(ms) == { ms[i].coef_ : i \in 1..Len(ms) }

\* C5: in a path the first fit starts from zeros and each later fit from a
\* vector equal to its predecessor's final coefficients, held in an array of
\* its own: no two models share an array, and fitting a model changes no array
\* but the one it was given.
C5_WarmStartCopies ==
    [][ /\ \A i, j \in 1..Len(path_models') :
              i # j => path_models'[i].coef_ # path_models'[j].coef_
        /\ coef' \notin Refs(path_models') \cup Refs(models')
        /\ \A a \in 1..Len(heap) : a # coef => heap'[a] = heap[a]
        /\ Len(path_models') = Len(path_models) + 1 =>
              /\ \A k \in 1..Len(path_models) :
                    heap'[path_models'[k].coef_] = heap[path_models[k].coef_]
              /\ IF path_models = <<>>
                 THEN /\ coef = 0
                      /\ heap'[path_models'[1].coef_] =
                           RefFit(path_models'[1].alpha, Zeros(NFeat(path_X)),
                                  path_X, path_y).h[1]
                 ELSE /\ heap[coef] = heap[path_models[Len(path_models)].coef_]
                      /\ heap'[path_models'[Len(path_models')].coef_] =
                           RefFit(path_models'[Len(path_models')].alpha,
                                  heap[path_models[Len(path_models)].coef_],
                                  path_X, path_y).h[1]
      ]_vars

\* a path of three models whose coefficients differ from one to the next
C5_Witness ==
    /\ pc = "path_loop" /\ Len(path_models) = 3
    /\ heap[path_models[1].coef_] # heap[path_models[2].coef_]
    /\ heap[path_models[2].coef_] # heap[path_models[3].coef_]

\* the model whose fit has just ended, and the data it was fitted on
JustFitted == IF entry = "fit" THEN clf' ELSE path_models'[Len(path_models')]
FitX == IF entry = "fit" THEN X ELSE path_X
FitY == IF entry = "fit" THEN y ELSE path_y
\* the duality gap of vector w for model m's penalties on its centered data
GapFor(m, w, Xd, Yd) ==
    DualGap(w,
            IF m.cls = "Lasso" THEN m.alpha * Len(Xd)
            ELSE Mul(m.alpha, m.rho) * Len(Xd),
            IF m.cls = "Lasso" THEN 0 ELSE Mul(m.alpha, Scale - m.rho) * Len(Xd),
            Center(Xd, m.xmean), [i \in 1..Len(Yd) |-> Yd[i] - m.ymean])

\* C7: a fit emits the 'did not converge' warning exactly when the solver's gap
\* is strictly greater than the solver's tolerance bound; in both cases the fit
\* does not abort, the solver's coefficients are stored in coef_, intercept_ is
\* computed from them and the fitted object is returned.
C7_WarnIffGap ==
    [][ nfits' = nfits + 1 =>
          /\ (nwarn' = nwarn + 1) <=> (JustFitted.dual_gap_ > JustFitted.eps_)
          /\ (nwarn' = nwarn) <=> (JustFitted.dual_gap_ <= JustFitted.eps_)
          /\ pc' # "error" /\ error' = "none"
          /\ JustFitted.fitted
          /\ JustFitted.coef_ \in 1..Len(heap')
          /\ JustFitted.dual_gap_ =
                GapFor(JustFitted, heap'[JustFitted.coef_], FitX, FitY)
          /\ JustFitted.intercept_ =
                IF JustFitted.intercept
                THEN JustFitted.ymean
                     - Dot(JustFitted.xmean, heap'[JustFitted.coef_])
                ELSE 0
          /\ entry = "fit" => /\ pc' = "done"
                              /\ clf'.alpha = clf.alpha /\ clf'.cls = clf.cls
      ]_vars

\* a fit that warned and still returned its coefficients
C7_Witness ==
    /\ entry = "fit" /\ pc = "done" /\ clf.fitted
    /\ nwarn = 1 /\ clf.dual_gap_ > clf.eps_
    /\ heap[clf.coef_] # Zeros(NFeat(X))

\* an explicit penalty list whose length is not n_alphas
ListMismatch ==
    /\ entry \in {"path", "cv"}
    /\ alphas # <<>>
    /\ Len(alphas[1]) # n_alphas

DoctestX == ScaleM(<< <<0, 0>>, <<1, 1>>, <<2, 2>> >>)
DoctestY == ScaleV(<<0, 1, 2>>)
CenteredY == [i \in 1..Len(y) |-> y[i] - Mean(y)]

\* C10: Lasso.fit with centering hands the solver the column-centered data
\* and the penalty alpha * nsamples and sets intercept_ = mean(Y) -
\* mean(X).coef_, so that predict(X) = X.coef_ + intercept_; on the docstring
\* example with alpha = 0.1 the fixed point is coef_ = [0.85, 0], intercept_ =
\* 0.15.
C10_CenteredFit ==
    (entry = "fit" /\ est = "Lasso" /\ pc = "done" /\ kw.intercept) =>
        /\ clf.xmean = ColMeans(X) /\ clf.ymean = Mean(y)
        /\ heap[clf.coef_] =
              lasso_coordinate_descent(Zeros(NFeat(X)), clf.alpha * Len(X),
                                       Center(X, ColMeans(X)), CenteredY,
                                       kw.maxit, clf.tol).w
        /\ clf.intercept_ = Mean(y) - Dot(ColMeans(X), heap[clf.coef_])
        /\ clf.intercept_len = 0
        /\ predict(clf, heap, X) =
              [i \in 1..Len(X) |-> Dot(X[i], heap[clf.coef_]) + clf.intercept_]
        /\ (X = DoctestX /\ y = DoctestY /\ clf.alpha = 10) =>
              /\ heap[clf.coef_] = <<85, 0>>
              /\ clf.intercept_ = 15
              /\ SweepFrom(heap[clf.coef_], 1, clf.alpha * Len(X), 0,
                           Center(X, ColMeans(X)), CenteredY) = heap[clf.coef_]

\* the docstring example has been fitted
C10_Witness ==
    /\ entry = "fit" /\ est = "Lasso" /\ pc = "done" /\ kw.intercept
    /\ X = DoctestX /\ y = DoctestY /\ clf.alpha = 10
    /\ heap[clf.coef_] = <<85, 0>>

\* C6: in bayesian_regression_ard keep_a is all true when the loop is entered,
\* and a pass of the loop activates no feature that was inactive, so the number
\* of active features never grows, whatever the precisions become.
C6_ActiveSetShrinks ==
    [][ entry = "ard" =>
          /\ (pc = "call" /\ pc' = "loop") =>
                keep_a' = [j \in 1..NFeat(X) |-> TRUE]
          /\ pc = "loop" =>
                /\ Len(keep_a') = Len(keep_a)
                /\ \A j \in 1..Len(keep_a) : keep_a'[j] => keep_a[j]
                /\ Len(Where(keep_a')) <= Len(Where(keep_a))
      ]_vars

\* two passes have run since a feature whose precision is infinite or nan was
\* dropped, and another feature is still active
C6_Witness ==
    /\ entry = "ard" /\ pc = "loop" /\ steps >= 2
    /\ \E i, j \in 1..Len(keep_a) :
          /\ keep_a[i]
          /\ ~keep_a[j] /\ ~IsFin(alpha_[j])

\* C8: when all target values are equal the Bayesian solvers end in an error
\* before the loop: beta is never infinite, the loop is never entered and
\* nothing is returned.
C8_ZeroVarianceRejected ==
    (entry \in {"ridge", "ard"} /\ Var(y) = 0) =>
        /\ beta_.k # "inf"
        /\ pc \in {"call", "error"}

StoppedEarly ==
    /\ pc = "loop" /\ steps' = steps + 1
    /\ has_converged'
    /\ ~XLt(Change(arrays'[w_'], arrays[w_]), Fin(th_w))

\* C12: in both Bayesian solvers a pass of the loop sets has_converged, and so
\* ends the loop before the step budget is used up, only when the sum over the
\* features of |w after the pass - w before the pass| is below th_w.
C12_StopsOnlyWhenConverged ==
    [][ (entry \in {"ridge", "ard"}) => (~StoppedEarly) ]_vars

\* the step_th the caller passed: every pass takes one off step_th
Budget == step_th + steps

\* C13: for every integer step_th the loop body of either Bayesian solver runs
\* at most max(step_th, 0) times, and with step_th = 0 the values of the
\* initialisation are returned.
C13_BoundedByBudget ==
    (entry \in {"ridge", "ard"} /\ pc \in {"loop", "returned", "error"}) =>
        /\ steps <= Max(Budget, 0)
        /\ (Budget = 0 /\ pc = "returned") =>
              /\ steps = 0
              /\ ret[1] = arrays[1]
              /\ ret[2] = (IF entry = "ridge" THEN Fin(Scale)
                           ELSE Const(NFeat(X), Fin(Scale)))
              /\ ret[3] = XQuot(Scale, Var(y))

\* one pass of the loop of bayesian_regression_ard, or its return
ARDStep == entry = "ard" /\ pc = "loop" /\ pc' \in {"loop", "returned"}

\* C14: a pass of bayesian_regression_ard leaves the precision of every feature
\* that was inactive when it began, and the coefficient of every feature that
\* is inactive after its thresholding, as they were; the returned w and alpha
\* are these vectors, so a dropped feature keeps its last coefficient.
C14_DroppedKeepValues ==
    [][ ARDStep =>
          /\ \A j \in 1..NFeat(X) :
                /\ ~keep_a[j] => /\ alpha_'[j] = alpha_[j]
                                 /\ ~keep_a'[j]
                /\ ~keep_a'[j] => arrays'[w_'][j] = arrays[w_][j]
          /\ pc' = "returned" => /\ ret'[1] = arrays[w_]
                                 /\ ret'[2] = alpha_ ]_vars

\* a feature dropped in an earlier pass is returned with the non-zero
\* coefficient and the precision it had when it was dropped
C14_Witness ==
    /\ entry = "ard" /\ pc = "returned" /\ steps >= 2
    /\ \E j \in 1..NFeat(X) :
          /\ ~keep_a[j]
          /\ ret[1][j].k = "fin" /\ ret[1][j].v # 0
          /\ ~XLt(ret[2][j], Fin(alpha_th))
          /\ \E i \in 1..NFeat(X) : keep_a[i]

\* self.path is entered for the path on the full data
PathEntered == pc = "path" /\ path_ret = "cv_full"
\* line 867 is executed
Updated == pc = "cv_returned" /\ pc' = "done"

\* C15: LinearModelCV.fit runs the path with the object's eps, n_alphas and
\* alphas, and ElasticNetCV with its rho; the update after the path leaves rho
\* and the grid settings as the constructor set them and makes alpha, coef_
\* and intercept_ those of the selected model.
C15_OwnConfiguration ==
    [][ (entry = "cvfit") =>
          /\ PathEntered =>
                /\ path_eps = self.eps
                /\ path_n = self.n_alphas
                /\ path_arg = self.alphas
                /\ est = "ElasticNet" => rho = self.rho
          /\ Updated =>
                /\ est = "ElasticNet" => self'.rho = self.rho
                /\ self'.eps = self.eps
                /\ self'.n_alphas = self.n_alphas
                /\ self'.alphas = self.alphas
                /\ self'.alpha = result[1].alpha
                /\ self'.coef_ = result[1].coef_
                /\ self'.intercept_ = result[1].intercept_ ]_vars

====
